---- MODULE Spec2Model ----
(***************************************************************************)
(* Verification model of cofinite/single-file-libraries:                   *)
(*   - memory-pool.h  (growable, handle based pool; first revision)        *)
(*   - fixed_size_block_allocator.h (static arena, src/unnamed/part_000)   *)
(*   - intern.hpp     (reference counted interning of values)              *)
(* size_t is modelled as an unsigned integer of W bits in the pool and of   *)
(* PtrBits bits in the arena; every size_t and pointer operation of the    *)
(* source is reduced modulo 2^W or 2^PtrBits.                              *)
(***************************************************************************)
EXTENDS Integers, Sequences, FiniteSets, TLC

(***************************************************************************)
(* Bounds of the model.                                                    *)
(***************************************************************************)
\* width of size_t in bits, in the pool
W == 4
\* width of size_t and of pointers in bits, in the arena
PtrBits == 5
\* the largest memSize handed to fsbaEmplaceAllocator
MaxMemSize == 16
\* the bump cursor hFreeArray is explored this far above its first value
MaxBump == 2
\* width in bits of the counter type Size of interned<T, Size>
SizeBits == 2
\* the number of distinct values of T
MaxVals == 2
\* the number of interned<T> objects the program constructs and destroys
MaxHandles == 2

RECURSIVE Pow2(_)
Pow2(n) == IF n = 0 THEN 1 ELSE 2 * Pow2(n - 1)

Modulus == Pow2(W)
SIZE_MAX == Modulus - 1
SizeT == 0 .. SIZE_MAX

(***************************************************************************)
(* Platform and program constants.                                         *)
(***************************************************************************)
\* sizeof(size_t), in address units: the size of the link word `next`
SizeofSizeT == 1
MP_GROWTH_FACTOR_NUMERATOR == 3
MP_GROWTH_FACTOR_DENOMINATOR == 2
\* #define MP_INVALID_HANDLE ((size_t)(-1))
MP_INVALID_HANDLE == (0 - 1) % Modulus

\* The content of a word that was not written by the library (never written,
\* lost by a reallocation, or overlaid by what the caller keeps in a live
\* slot): an indeterminate value.  It stays indeterminate when it is copied,
\* and stands for any value of its type where it is used.
Junk == 0 - 1
Values(x, type) == IF x = Junk THEN type ELSE {x}
\* return values of mpGrowPoolEx
RET_OK == 0
RET_FAIL == 0 - 1

\* sizeof(*(pMemPool)->pBlocks): the union {size_t next; T value}, for a T
\* no larger than size_t and for a T twice as large
BlockSizes == {SizeofSizeT, 2 * SizeofSizeT}

\* addresses of the words of the storage, relative to pBlocks
Offsets == {o \in SizeT : o % SizeofSizeT = 0}

VARIABLES
    unit,       \* which library this behaviour exercises
    pool,       \* MemPoolInfo: pBlocks, capacity, hFreeArray, hFreeList, blockSize
    heap,       \* the allocation pBlocks refers to: is it live, and its byte size
    mem,        \* the link words of the storage, by offset
    base,       \* the value of hFreeArray in the first state
    liveH,      \* handles returned by mpAlloc (blocks returned by fsbaAllocate)
                \* and not yet freed: the caller's view
    arena,      \* struct FsbaAllocator and the address it was emplaced at
    buf,        \* the arguments fsbaEmplaceAllocator was called with, and the
                \* block count it stored
    op,         \* the last call
    ret,        \* its return value
    rc,         \* what the underlying realloc did in the last call
    pc,         \* "run"; "crashed" once undefined behaviour trapped; "undefined"
                \* once undefined behaviour happened and the program went on;
                \* "beyond" after the one call that is followed from there
    run,        \* handles freed since the last allocation, in order
    phase,      \* "free" while frees accumulate in run, "alloc" while they are popped
    args,       \* the arguments an alignment utility is applied to
    map,        \* interned<T>::map: the entry (first, second) at each node address
    ptrOf,      \* the member ptr of each interned<T> object; nullptr where there
                \* is no such object
    held,       \* the value each interned<T> object was last bound to
    bg,         \* the further interned<T> objects that the program keeps for
                \* good: how many they are, their ptr and the value they hold
    log         \* the steps of the last interned<T> call: what each did to which
                \* node, and the map it left

internVars == <<map, ptrOf, held, bg, log>>

vars == <<unit, pool, heap, mem, base, liveH, arena, buf, op, ret, rc, pc, run, phase,
          args, internVars>>

(***************************************************************************)
(* memory-pool.h, first revision (lines 85-199)                            *)
(***************************************************************************)

\* #define mpInit(pMemPool) {{NULL, 0, 0, -1, sizeof(*(pMemPool)->pBlocks)}}
mpInit(bs) ==
    [pBlocks |-> "NULL", capacity |-> 0, hFreeArray |-> 0,
     hFreeList |-> (0 - 1) % Modulus, blockSize |-> bs]

NoHeap == [live |-> FALSE, bytes |-> 0]

\* no allocator was emplaced, and fsbaEmplaceAllocator was not called
NoArena ==
    [pAllocator |-> 0, pFreeMemBegin |-> 0, pFreeMemEnd |-> 0, blockSize |-> 0,
     pFreeBlock |-> 0]
NoBuf == [pMem |-> 0, memSize |-> 0, blockSize |-> 0, blockAlign |-> 0, blockCount |-> 0]
NoMem == [o \in Offsets |-> Junk]
\* no alignment utility is applied in this behaviour
NoArgs == [num |-> 0, multiple |-> 0]
\* no interned<T> is instantiated in this behaviour
InternUnused ==
    /\ map = <<>> /\ ptrOf = <<>> /\ held = <<>> /\ bg = <<>> /\ log = <<>>

\* the two revisions of the pool that memory-pool.h holds: the first (lines
\* 80-201) and the second (lines 313-427), which differ in mpFree only
PoolUnits == {"pool", "pool2"}

\* is the word at offset off inside the live storage?
InStorage(h, off) == h.live /\ off + SizeofSizeT <= h.bytes

\* static size_t* _mpNext(this, handle): (char*)pBlocks + handle * blockSize
mpNext(this, handle) == (handle * this.blockSize) % Modulus

\* the byte count _mpResize hands to realloc: capacity * this->blockSize
ResizeBytes(this, cap) == (cap * this.blockSize) % Modulus

\* What realloc(ptr, size) may do.  "ok": a block of size bytes is returned and
\* the old one is gone.  "null_kept": NULL, the old block untouched (out of
\* memory; or a zero size request that allocates nothing).  "null_freed": NULL
\* and the old block freed (a zero size request on a non null pointer).
\* A ptr that was already freed makes the call undefined: "trap" (the allocator
\* aborts), or it goes on as "wild_ok" / "wild_null".
ReallocOutcomes(this, h, size) ==
    IF this.pBlocks # "NULL" /\ ~h.live
    THEN {"trap", "wild_ok", "wild_null"}
    ELSE IF size = 0 /\ this.pBlocks # "NULL"
    THEN {"ok", "null_kept", "null_freed"}
    ELSE {"ok", "null_kept"}

\* the storage after realloc: contents are kept up to the smaller size
ReallocMem(h, m, size) ==
    [o \in Offsets |->
        IF InStorage(h, o) /\ o + SizeofSizeT <= size THEN m[o] ELSE Junk]

\* a resize that records the new storage and capacity whatever realloc returned
ResizeRegardless(this, cap, out) == [this EXCEPT !.pBlocks = "PTR", !.capacity = cap]

\* static int _mpResize(this, capacity)
mpResizePool(this, cap, out) ==
    IF out \in {"ok", "wild_ok"}
    THEN [this EXCEPT !.pBlocks = "PTR", !.capacity = cap]
    ELSE this

mpResizeHeap(this, h, cap, out) ==
    IF out \in {"ok", "wild_ok"} THEN [live |-> TRUE, bytes |-> ResizeBytes(this, cap)]
    ELSE IF out = "null_freed" THEN NoHeap
    ELSE h

mpResizeMem(this, h, m, cap, out) ==
    IF out \in {"ok", "wild_ok"} THEN ReallocMem(h, m, ResizeBytes(this, cap))
    ELSE IF out = "null_freed" THEN NoMem
    ELSE m

mpResizeRet(out) == IF out \in {"ok", "wild_ok"} THEN RET_OK ELSE RET_FAIL

\* where the program stands after a call that did not trap: "undefined" when
\* undefined behaviour happened in it, and "beyond" after the one call that is
\* followed from an "undefined" state
After(out) ==
    IF pc = "undefined" THEN "beyond"
    ELSE IF out \in {"wild", "wild_ok", "wild_null", "lost", "zero", "ones"}
    THEN "undefined"
    ELSE pc

\* a call can be made: the program did not crash, and is not beyond the one
\* call followed after undefined behaviour
Running == pc \in {"run", "undefined"}

\* undefined behaviour trapped inside the call: the program is gone, and
\* nothing of its state is left to look at
Trap ==
    /\ pc' = "crashed"
    /\ rc' = "trap"
    /\ ret' = 0
    /\ pool' = mpInit(pool.blockSize)
    /\ heap' = NoHeap
    /\ mem' = NoMem
    /\ base' = 0
    /\ liveH' = {}
    /\ arena' = NoArena
    /\ buf' = NoBuf
    /\ run' = <<>>
    /\ phase' = "free"

\* mpGrowPoolEx: size_t newCapacity = this->capacity + num
GrowCapacity(this, num) == (this.capacity + num) % Modulus

\* a growth that never reports overflow
NeverOverflows(this, num) == FALSE

\* mpGrowPoolEx: if (newCapacity < this->capacity) return -1
GrowOverflows(this, num) == GrowCapacity(this, num) < this.capacity

\* int mpGrowPoolEx(MemPoolInfo* this, size_t num)
mpGrowPool(num) ==
    /\ unit \in PoolUnits /\ Running
    /\ op' = "mpGrowPool"
    /\ UNCHANGED <<unit, base, arena, buf, args, internVars>>
    /\ IF GrowOverflows(pool, num)
       THEN /\ ret' = RET_FAIL /\ rc' = "none" /\ pc' = After("none")
            /\ UNCHANGED <<pool, heap, mem, liveH, run, phase>>
       ELSE \E out \in ReallocOutcomes(pool, heap, ResizeBytes(pool, GrowCapacity(pool, num))) :
            IF out = "trap" THEN Trap
            ELSE /\ rc' = out
                 /\ pc' = After(out)
                 /\ pool' = mpResizePool(pool, GrowCapacity(pool, num), out)
                 /\ heap' = mpResizeHeap(pool, heap, GrowCapacity(pool, num), out)
                 /\ mem' = mpResizeMem(pool, heap, mem, GrowCapacity(pool, num), out)
                 /\ ret' = mpResizeRet(out)
                 /\ UNCHANGED <<liveH, run, phase>>

\* mpFreePoolEx: pBlocks = NULL; capacity = 0; hFreeArray = 0; hFreeList = invalid
mpFreePoolFields(this) ==
    [this EXCEPT !.pBlocks = "NULL", !.capacity = 0, !.hFreeArray = 0,
                 !.hFreeList = MP_INVALID_HANDLE]

\* mpFreePoolEx: if (pBlocks != NULL) free(pBlocks); freeing a block that is no
\* longer live is a double free: undefined
FreeOutcomes(this, h) ==
    IF this.pBlocks # "NULL" /\ ~h.live THEN {"trap", "wild"} ELSE {"none"}

\* void mpFreePoolEx(MemPoolInfo* this)
mpFreePool ==
    /\ unit \in PoolUnits /\ Running
    /\ op' = "mpFreePool"
    /\ UNCHANGED <<unit, arena, buf, args, internVars>>
    /\ \E out \in FreeOutcomes(pool, heap) :
        IF out = "trap" THEN Trap
        ELSE /\ rc' = out
             /\ ret' = 0
             /\ pc' = After(out)
             /\ pool' = mpFreePoolFields(pool)
             /\ heap' = NoHeap
             /\ mem' = NoMem
             /\ base' = 0
             /\ liveH' = {}
             /\ run' = <<>>
             /\ phase' = "free"

\* a growth of one slot whatever the capacity
GrowByOne(this) == (this.capacity + 1) % Modulus

\* mpAllocEx: newCapacity = capacity * NUMERATOR / DENOMINATOR
GrowthCapacity(this) ==
    ((this.capacity * MP_GROWTH_FACTOR_NUMERATOR) % Modulus)
        \div MP_GROWTH_FACTOR_DENOMINATOR

\* mpAllocEx: if (newCapacity == this->capacity) newCapacity += 1
AllocCapacity(this) ==
    IF GrowthCapacity(this) = this.capacity
    THEN (GrowthCapacity(this) + 1) % Modulus
    ELSE GrowthCapacity(this)

\* What a load of the link word at off may yield: the link stored there, or
\* the indeterminate value of a word the pool did not write.  A load outside
\* the live storage is undefined: it traps, or yields an indeterminate value.
LoadOutcomes(h, m, off) ==
    IF InStorage(h, off)
    THEN {[kind |-> IF m[off] # Junk THEN "ok" ELSE "wild", val |-> m[off]]}
    ELSE {[kind |-> "trap", val |-> 0], [kind |-> "wild", val |-> Junk]}

\* what a store to the word at off may do: outside the live storage it is
\* undefined (it traps, or lands in foreign memory)
StoreOutcomes(h, off) ==
    IF InStorage(h, off) THEN {"stored"} ELSE {"trap", "lost"}

\* the slot of a handle given out belongs to the caller, whose value overlays
\* the link word (union {size_t next; type value})
GiveOut(h, m, off) ==
    IF InStorage(h, off) THEN [m EXCEPT ![off] = Junk] ELSE m

\* bookkeeping of the caller's run of frees, when an allocation returns
PopRun == IF run = <<>> THEN <<>> ELSE SubSeq(run, 1, Len(run) - 1)

\* mpAllocEx, first branch: handle = hFreeList; hFreeList = *_mpNext(handle)
mpAllocPop(this) ==
    \E ld \in LoadOutcomes(heap, mem, mpNext(this, this.hFreeList)) :
        IF ld.kind = "trap" THEN Trap
        ELSE /\ rc' = "none"
             /\ pc' = After(ld.kind)
             /\ ret' = this.hFreeList
             /\ pool' = [this EXCEPT !.hFreeList = ld.val]
             /\ mem' = GiveOut(heap, mem, mpNext(this, this.hFreeList))
             /\ liveH' = liveH \cup {this.hFreeList}
             /\ run' = PopRun
             /\ phase' = "alloc"
             /\ UNCHANGED heap

\* mpAllocEx, end: handle = this->hFreeArray; this->hFreeArray += 1
BumpFields(this) == [this EXCEPT !.hFreeArray = (this.hFreeArray + 1) % Modulus]

\* a pool that is never found full
NeverFull(this) == FALSE

\* mpAllocEx: if (this->hFreeArray >= this->capacity) the pool must grow
NeedsGrowth(this) == this.hFreeArray >= this.capacity

\* a growth factor whose product is never found to wrap
NeverWraps(this) == FALSE

\* mpAllocEx: if (newCapacity < this->capacity) return MP_INVALID_HANDLE
GrowthOverflows(this) == GrowthCapacity(this) < this.capacity

\* mpAllocEx, second branch: grow if the cursor reached capacity, then bump
mpAllocBump(this) ==
    IF NeedsGrowth(this)
    THEN IF GrowthOverflows(this)
         THEN /\ ret' = MP_INVALID_HANDLE /\ rc' = "none" /\ pc' = After("none")
              /\ UNCHANGED <<pool, heap, mem, liveH, run, phase>>
         ELSE \E out \in ReallocOutcomes(this, heap, ResizeBytes(this, AllocCapacity(this))) :
              IF out = "trap" THEN Trap
              ELSE /\ rc' = out
                   /\ pc' = After(out)
                   /\ heap' = mpResizeHeap(this, heap, AllocCapacity(this), out)
                   /\ mem' = mpResizeMem(this, heap, mem, AllocCapacity(this), out)
                   /\ IF mpResizeRet(out) = RET_OK
                      THEN /\ pool' = BumpFields(mpResizePool(this, AllocCapacity(this), out))
                           /\ ret' = this.hFreeArray
                           /\ liveH' = liveH \cup {this.hFreeArray}
                           /\ run' = PopRun
                           /\ phase' = "alloc"
                      ELSE /\ pool' = this
                           /\ ret' = MP_INVALID_HANDLE
                           /\ UNCHANGED <<liveH, run, phase>>
    ELSE /\ rc' = "none" /\ pc' = After("none")
         /\ pool' = BumpFields(this)
         /\ ret' = this.hFreeArray
         /\ liveH' = liveH \cup {this.hFreeArray}
         /\ run' = PopRun
         /\ phase' = "alloc"
         /\ UNCHANGED <<heap, mem>>

\* an allocation that never looks at the free list
IgnoresFreeList(handle) == FALSE

\* mpAllocEx: if (handle != MP_INVALID_HANDLE) the head of the free list is used
HasFreeSlot(handle) == handle # MP_INVALID_HANDLE

\* size_t mpAllocEx(MemPoolInfo* this), in a behaviour whose allocations stop
\* when the bump index is limit
mpAllocCall(limit) ==
    /\ unit \in PoolUnits /\ Running
    /\ op' = "mpAlloc"
    /\ UNCHANGED <<unit, base, arena, buf, args, internVars>>
    /\ \E head \in Values(pool.hFreeList, SizeT) :
        IF HasFreeSlot(head)
        THEN mpAllocPop([pool EXCEPT !.hFreeList = head])
        ELSE /\ pool.hFreeArray < limit
             /\ mpAllocBump(pool)

\* mpAlloc(pMemPool), at most MaxBump handles past the base being carved
mpAlloc == mpAllocCall(base + MaxBump)

\* mpAlloc(pMemPool) in a behaviour that fills the pool: handles are carved
\* for as long as mpAllocEx finds a capacity for them
mpAllocFill == mpAllocCall(Modulus)

\* a free that takes every handle for a slot
FreesAnyHandle(handle) == TRUE

\* mpFreeEx: if (handle != MP_INVALID_HANDLE)
FreesSlot(handle) == handle # MP_INVALID_HANDLE

\* *_mpNext(this, handle) = this->hFreeList; this->hFreeList = handle
mpFreeStore(handle) ==
    \E st \in StoreOutcomes(heap, mpNext(pool, handle)) :
        IF st = "trap" THEN Trap
        ELSE /\ rc' = "none"
             /\ ret' = 0
             /\ pc' = After(st)
             /\ mem' = IF st = "stored"
                       THEN [mem EXCEPT ![mpNext(pool, handle)] = pool.hFreeList]
                       ELSE mem
             /\ pool' = [pool EXCEPT !.hFreeList = handle]
             /\ liveH' = liveH \ {handle}
             /\ run' = IF phase = "free" THEN Append(run, handle) ELSE <<handle>>
             /\ phase' = "free"
             /\ UNCHANGED heap

\* void mpFreeEx(MemPoolInfo* this, size_t handle), handle a live handle or
\* MP_INVALID_HANDLE (the caller contract)
mpFree(handle) ==
    /\ unit = "pool" /\ Running
    /\ op' = "mpFree"
    /\ UNCHANGED <<unit, base, arena, buf, args, internVars>>
    /\ IF FreesSlot(handle)
       THEN mpFreeStore(handle)
       ELSE /\ rc' = "none" /\ ret' = 0 /\ pc' = After("none")
            /\ UNCHANGED <<pool, heap, mem, liveH, run, phase>>

\* void mpFree_(struct MemPool_* this, size_t handle) of the second revision,
\* which stores the link and moves the head whatever the handle is
mpFree_(handle) ==
    /\ unit = "pool2" /\ Running
    /\ op' = "mpFree"
    /\ UNCHANGED <<unit, base, arena, buf, args, internVars>>
    /\ mpFreeStore(handle)

\* the values of hFreeArray a behaviour starts at: 0, a small one, and one
\* close to the largest size_t
Bases == {0, MaxBump + 1, SIZE_MAX - 1}

\* The pool after mpInit; or, for n > 0, the pool after mpInit, a successful
\* mpGrowPool(n) and n calls of mpAlloc whose handles 0 .. n-1 the caller
\* keeps for good.
PoolAfter(bs, n) ==
    /\ pool = IF n = 0 THEN mpInit(bs)
              ELSE [mpInit(bs) EXCEPT !.pBlocks = "PTR", !.capacity = n, !.hFreeArray = n]
    /\ heap = IF n = 0 THEN NoHeap
              ELSE [live |-> TRUE, bytes |-> ResizeBytes(mpInit(bs), n)]
    /\ mem = NoMem
    /\ base = n
    /\ liveH = 0 .. n - 1
    /\ op = (IF n = 0 THEN "mpInit" ELSE "mpAlloc")
    /\ ret = (IF n = 0 THEN 0 ELSE n - 1)
    /\ phase = (IF n = 0 THEN "free" ELSE "alloc")

PoolInit ==
    /\ unit = "pool"
    /\ \E bs \in BlockSizes : \E n \in Bases : PoolAfter(bs, n)
    /\ arena = NoArena
    /\ buf = NoBuf
    /\ rc = "none"
    /\ pc = "run"
    /\ run = <<>>
    /\ args = NoArgs
    /\ InternUnused

\* the growths asked for: none, small ones, one that takes the capacity of a
\* fresh pool half way up size_t, and the largest
GrowArgs == {0, 1, 2, 3, Modulus \div 2 - 1, SIZE_MAX}

PoolNext ==
    \/ \E num \in GrowArgs : mpGrowPool(num)
    \/ mpAlloc
    \/ \E handle \in {h \in liveH : h >= base} \cup {MP_INVALID_HANDLE} : mpFree(handle)
    \/ mpFreePool

PoolSpec == PoolInit /\ [][PoolNext]_vars

\* the second revision: the same pool, freed with mpFree_
Pool2Init ==
    /\ unit = "pool2"
    /\ \E bs \in BlockSizes : \E n \in Bases : PoolAfter(bs, n)
    /\ arena = NoArena
    /\ buf = NoBuf
    /\ rc = "none"
    /\ pc = "run"
    /\ run = <<>>
    /\ args = NoArgs
    /\ InternUnused

Pool2Next ==
    \/ \E num \in GrowArgs : mpGrowPool(num)
    \/ mpAlloc
    \/ \E handle \in {h \in liveH : h >= base} \cup {MP_INVALID_HANDLE} : mpFree_(handle)
    \/ mpFreePool

Pool2Spec == Pool2Init /\ [][Pool2Next]_vars

\* A freshly initialised pool of either revision that is filled: mpAlloc is
\* called again and again, with no mpFree and no mpGrowPool; mpFreePool makes
\* the pool fresh again.
\* sizeof(*(pMemPool)->pBlocks) of the pools that are filled: a size_t, or a
\* larger value type
FillBlockSizes == SizeofSizeT .. 4 * SizeofSizeT

FillInit ==
    /\ unit \in PoolUnits
    /\ \E bs \in FillBlockSizes : PoolAfter(bs, 0)
    /\ arena = NoArena
    /\ buf = NoBuf
    /\ rc = "none"
    /\ pc = "run"
    /\ run = <<>>
    /\ args = NoArgs
    /\ InternUnused

FillNext ==
    \/ mpAllocFill
    \/ mpFreePool

FillSpec == FillInit /\ [][FillNext]_vars

(***************************************************************************)
(* Earlier revisions of the pool: src/unnamed/part_001 (unit "rev1") and   *)
(* src/unnamed/part_002 (unit "rev2").  Their size_t is given two more     *)
(* bits than W, so that the default capacity of part_002 and its byte      *)
(* count are values of size_t.                                             *)
(***************************************************************************)
RevUnits == {"rev1", "rev2"}
RevBits == W + 2
RevModulus == Pow2(RevBits)
RevSizeT == 0 .. RevModulus - 1
\* #define MP_INVALID_HANDLE ((size_t)-1)
RevInvalidHandle == (0 - 1) % RevModulus
\* #define _MP_DEFAULT_INITIAL_CAPACITY 16
MP_DEFAULT_INITIAL_CAPACITY == 16

\* #define mpInit(pMemPool) {{NULL, 0, 0, -1, sizeof(*(pMemPool)->pBlocks)}}
RevPoolInit(bs) ==
    [pBlocks |-> "NULL", capacity |-> 0, hFreeArray |-> 0,
     hFreeList |-> RevInvalidHandle, blockSize |-> bs]

RevNoMem == [o \in RevSizeT |-> Junk]

\* (char*)this->pBlocks + handle * this->blockSize
RevSlot(this, handle) == (handle * this.blockSize) % RevModulus

\* _mpResize: realloc(this->pBlocks, capacity * this->blockSize)
RevResizeBytes(this, cap) == (cap * this.blockSize) % RevModulus

\* undefined behaviour trapped inside a call of an earlier revision
RevTrap ==
    /\ pc' = "crashed"
    /\ rc' = "trap"
    /\ ret' = 0
    /\ pool' = RevPoolInit(pool.blockSize)
    /\ heap' = NoHeap
    /\ mem' = RevNoMem
    /\ liveH' = {}
    /\ run' = <<>>
    /\ phase' = "free"

\* _mpResize(this, cap), realloc having done out: pBlocks and capacity are
\* set when realloc returned a block
RevResize(cap, out) ==
    /\ pool' = mpResizePool(pool, cap, out)
    /\ heap' = IF out \in {"ok", "wild_ok"}
               THEN [live |-> TRUE, bytes |-> RevResizeBytes(pool, cap)]
               ELSE IF out = "null_freed" THEN NoHeap
               ELSE heap
    /\ mem' = IF out \in {"ok", "wild_ok"}
              THEN [o \in RevSizeT |->
                       IF InStorage(heap, o) /\ o + SizeofSizeT <= RevResizeBytes(pool, cap)
                       THEN mem[o] ELSE Junk]
              ELSE IF out = "null_freed" THEN RevNoMem
              ELSE mem

\* the body of mpCreatePool (part_001) and of mpGrowPoolEx (part_002): the
\* result of _mpResize is returned
RevGrow(cap) ==
    /\ Running
    /\ UNCHANGED <<unit, base, arena, buf, args, internVars>>
    /\ \E out \in ReallocOutcomes(pool, heap, RevResizeBytes(pool, cap)) :
        IF out = "trap" THEN RevTrap
        ELSE /\ rc' = out
             /\ pc' = After(out)
             /\ RevResize(cap, out)
             /\ ret' = mpResizeRet(out)
             /\ UNCHANGED <<liveH, run, phase>>

\* part_001: int mpCreatePool(void* pMemPool, size_t capacity)
mpCreatePool(capacity) ==
    /\ unit = "rev1"
    /\ op' = "mpCreatePool"
    /\ RevGrow(capacity)

\* part_002: int mpGrowPoolEx(MemPoolInfo* this, size_t num)
mpGrowPoolEx(num) ==
    /\ unit = "rev2"
    /\ op' = "mpGrowPool"
    /\ RevGrow((pool.capacity + num) % RevModulus)

\* part_001 mpDestroyPool and part_002 mpFreePoolEx:
\* if (pBlocks != NULL) free(pBlocks); the four members are reset
RevFreePool ==
    /\ Running
    /\ UNCHANGED <<unit, arena, buf, args, internVars>>
    /\ \E out \in FreeOutcomes(pool, heap) :
        IF out = "trap" THEN RevTrap /\ base' = 0
        ELSE /\ rc' = out
             /\ ret' = 0
             /\ pc' = After(out)
             /\ pool' = [pool EXCEPT !.pBlocks = "NULL", !.capacity = 0,
                                     !.hFreeArray = 0, !.hFreeList = RevInvalidHandle]
             /\ heap' = NoHeap
             /\ mem' = RevNoMem
             /\ base' = 0
             /\ liveH' = {}
             /\ run' = <<>>
             /\ phase' = "free"

\* part_001: void mpDestroyPool(void* pMemPool)
mpDestroyPool == unit = "rev1" /\ op' = "mpDestroyPool" /\ RevFreePool

\* part_002: void mpFreePoolEx(MemPoolInfo* this)
mpFreePoolEx == unit = "rev2" /\ op' = "mpFreePool" /\ RevFreePool

\* newCapacity = capacity * NUMERATOR / DENOMINATOR; in part_002:
\* if (newCapacity == 0) newCapacity = _MP_DEFAULT_INITIAL_CAPACITY
RevAllocCapacity(this) ==
    LET n == ((this.capacity * MP_GROWTH_FACTOR_NUMERATOR) % RevModulus)
                 \div MP_GROWTH_FACTOR_DENOMINATOR
    IN  IF unit = "rev2" /\ n = 0 THEN MP_DEFAULT_INITIAL_CAPACITY ELSE n

\* the allocations of a behaviour stop when the bump index is this far
RevMaxAlloc == MaxBump

\* the body of mpAlloc (part_001) and of mpAllocEx (part_002)
RevAlloc ==
    /\ Running
    /\ op' = "mpAlloc"
    /\ UNCHANGED <<unit, base, arena, buf, args, internVars>>
    /\ \E head \in Values(pool.hFreeList, RevSizeT) :
        IF head # RevInvalidHandle
        THEN \E ld \in LoadOutcomes(heap, mem, RevSlot(pool, head)) :
             IF ld.kind = "trap" THEN RevTrap
             ELSE /\ rc' = "none"
                  /\ pc' = After(ld.kind)
                  /\ ret' = head
                  /\ pool' = [pool EXCEPT !.hFreeList = ld.val]
                  /\ mem' = GiveOut(heap, mem, RevSlot(pool, head))
                  /\ liveH' = liveH \cup {head}
                  /\ run' = PopRun
                  /\ phase' = "alloc"
                  /\ UNCHANGED heap
        ELSE /\ pool.hFreeArray < RevMaxAlloc
             /\ IF pool.hFreeArray >= pool.capacity
                THEN \E out \in ReallocOutcomes(pool, heap,
                                   RevResizeBytes(pool, RevAllocCapacity(pool))) :
                     IF out = "trap" THEN RevTrap
                     ELSE /\ rc' = out
                          /\ pc' = After(out)
                          /\ IF mpResizeRet(out) = RET_OK
                             THEN /\ heap' = [live |-> TRUE,
                                              bytes |-> RevResizeBytes(pool, RevAllocCapacity(pool))]
                                  /\ mem' = [o \in RevSizeT |->
                                               IF /\ InStorage(heap, o)
                                                  /\ o + SizeofSizeT <=
                                                       RevResizeBytes(pool, RevAllocCapacity(pool))
                                               THEN mem[o] ELSE Junk]
                                  /\ pool' = [pool EXCEPT
                                                !.pBlocks = "PTR",
                                                !.capacity = RevAllocCapacity(pool),
                                                !.hFreeArray = (pool.hFreeArray + 1) % RevModulus]
                                  /\ ret' = pool.hFreeArray
                                  /\ liveH' = liveH \cup {pool.hFreeArray}
                                  /\ run' = PopRun
                                  /\ phase' = "alloc"
                             ELSE /\ RevResize(RevAllocCapacity(pool), out)
                                  /\ ret' = RevInvalidHandle
                                  /\ UNCHANGED <<liveH, run, phase>>
                ELSE /\ rc' = "none" /\ pc' = After("none")
                     /\ pool' = [pool EXCEPT !.hFreeArray = (pool.hFreeArray + 1) % RevModulus]
                     /\ ret' = pool.hFreeArray
                     /\ liveH' = liveH \cup {pool.hFreeArray}
                     /\ run' = PopRun
                     /\ phase' = "alloc"
                     /\ UNCHANGED <<heap, mem>>

\* part_001: size_t mpAlloc(void* pMemPool)
mpAlloc1 == unit = "rev1" /\ RevAlloc

\* part_002: size_t mpAllocEx(MemPoolInfo* this)
mpAllocEx == unit = "rev2" /\ RevAlloc

\* the body of mpFree (part_001) and of mpFreeEx (part_002), handle a handle
\* that mpAlloc returned and that was not freed since, or MP_INVALID_HANDLE
RevFree(handle) ==
    /\ Running
    /\ op' = "mpFree"
    /\ UNCHANGED <<unit, base, arena, buf, args, internVars>>
    /\ IF handle # RevInvalidHandle
       THEN \E st \in StoreOutcomes(heap, RevSlot(pool, handle)) :
            IF st = "trap" THEN RevTrap
            ELSE /\ rc' = "none"
                 /\ ret' = 0
                 /\ pc' = After(st)
                 /\ mem' = IF st = "stored"
                           THEN [mem EXCEPT ![RevSlot(pool, handle)] = pool.hFreeList]
                           ELSE mem
                 /\ pool' = [pool EXCEPT !.hFreeList = handle]
                 /\ liveH' = liveH \ {handle}
                 /\ run' = IF phase = "free" THEN Append(run, handle) ELSE <<handle>>
                 /\ phase' = "free"
                 /\ UNCHANGED heap
       ELSE /\ rc' = "none" /\ ret' = 0 /\ pc' = After("none")
            /\ UNCHANGED <<pool, heap, mem, liveH, run, phase>>

\* part_001: void mpFree(void* pMemPool, size_t handle)
mpFree1(handle) == unit = "rev1" /\ RevFree(handle)

\* part_002: void mpFreeEx(MemPoolInfo* this, size_t handle)
mpFreeEx(handle) == unit = "rev2" /\ RevFree(handle)

\* the capacities asked of mpCreatePool and the growths asked of mpGrowPoolEx
RevGrowArgs == {0, 1}

RevInit ==
    /\ unit \in RevUnits
    /\ \E bs \in BlockSizes : pool = RevPoolInit(bs)
    /\ heap = NoHeap
    /\ mem = RevNoMem
    /\ base = 0
    /\ liveH = {}
    /\ arena = NoArena
    /\ buf = NoBuf
    /\ op = "mpInit" /\ ret = 0 /\ rc = "none"
    /\ pc = "run"
    /\ run = <<>>
    /\ phase = "free"
    /\ args = NoArgs
    /\ InternUnused

RevNext ==
    \/ \E capacity \in RevGrowArgs : mpCreatePool(capacity)
    \/ \E num \in RevGrowArgs : mpGrowPoolEx(num)
    \/ mpAlloc1
    \/ mpAllocEx
    \/ \E handle \in liveH \cup {RevInvalidHandle} : mpFree1(handle)
    \/ \E handle \in liveH \cup {RevInvalidHandle} : mpFreeEx(handle)
    \/ mpDestroyPool
    \/ mpFreePoolEx

RevSpec == RevInit /\ [][RevNext]_vars


(***************************************************************************)
(* fixed_size_block_allocator.h (src/unnamed/part_000, lines 141-255)      *)
(***************************************************************************)
\* The library is built for one of two platforms.  unit = "arena": pointers
\* and size_t of PtrBits bits, two address units to a pointer; the arithmetic
\* wraps within reach.  unit = "arena64": byte addresses, pointers of 8 bytes
\* aligned to 8; addresses are kept modulo 256, far above every address the
\* calls made on this platform compute.
ArenaUnits == {"arena", "arena64"}
AddrModulus == IF unit = "arena64" THEN 256 ELSE Pow2(PtrBits)
Addr == 0 .. AddrModulus - 1
NULL == 0
\* sizeof(void*) and fsba_alignof(void*), in address units
SizeofPtr == IF unit = "arena64" THEN 8 ELSE 2
AlignofPtr == IF unit = "arena64" THEN 8 ELSE 2
\* a control structure of a single pointer sized member
OnePointerStruct == SizeofPtr
\* struct FsbaAllocator: four pointer sized members
SizeofFsbaAllocator == 4 * SizeofPtr
AlignofFsbaAllocator == AlignofPtr

\* Division by zero is undefined: the instruction traps, or yields quotient 0
\* or the all ones quotient; where it does not trap the remainder is the
\* dividend.
DivZeroOutcomes == {"trap", "zero", "ones"}
Remainder(a, b) == IF b = 0 THEN a ELSE a % b
Quotient(a, b, dz) ==
    IF b = 0 THEN (IF dz = "zero" THEN 0 ELSE AddrModulus - 1) ELSE a \div b

\* ptr + (align - ((((size_t)ptr - 1) % align) + 1))
fsba_alignUp(ptr, align) ==
    (ptr + (align - (Remainder((ptr - 1) % AddrModulus, align) + 1))) % AddrModulus

\* num + (multiple - (((num - 1) % multiple) + 1))
fsba_roundUp(num, multiple) ==
    (num + (multiple - (Remainder((num - 1) % AddrModulus, multiple) + 1))) % AddrModulus

\* num - (num % multiple)
fsba_roundDown(num, multiple) == (num - Remainder(num, multiple)) % AddrModulus

RECURSIVE fsba_GCD(_, _)
fsba_GCD(a, b) == IF b # 0 THEN fsba_GCD(b, a % b) ELSE a

\* (a * b) / fsba_GCD(a, b)
fsba_LCM(a, b) == ((a * b) % AddrModulus) \div fsba_GCD(a, b)

\* The locals of fsbaEmplaceAllocator, for the arguments c = [pMem, memSize,
\* blockSize, blockAlign, pBlockCount].
pAllocatorOf(c) == fsba_alignUp(c.pMem, AlignofFsbaAllocator)
blockAlignOf(c) == fsba_LCM(c.blockAlign, AlignofPtr)
blockSizeOf(c) ==
    fsba_roundUp(IF c.blockSize < SizeofPtr THEN SizeofPtr ELSE c.blockSize,
                 blockAlignOf(c))
pBlockMemBeginOf(c) ==
    fsba_alignUp((pAllocatorOf(c) + SizeofFsbaAllocator) % AddrModulus, blockAlignOf(c))
memUsedOf(c) == (pBlockMemBeginOf(c) - c.pMem) % AddrModulus
memSizeOf(c) == fsba_roundDown((c.memSize - memUsedOf(c)) % AddrModulus, blockSizeOf(c))
blockCountOf(c, dz) == Quotient(memSizeOf(c), blockSizeOf(c), dz)

\* does the call divide by zero?  fsba_roundUp and fsba_alignUp divide by
\* blockAlign, fsba_roundDown and the block count by blockSize
DividesByZero(c) ==
    blockAlignOf(c) = 0 \/ (memUsedOf(c) <= c.memSize /\ blockSizeOf(c) = 0)

\* *pBlockCount after the call; Junk where pBlockCount is NULL
StoredCount(c, n) == IF c.pBlockCount = "PTR" THEN n ELSE Junk

\* is the control structure inside the caller's buffer?
CtrlInside(c) == pAllocatorOf(c) + SizeofFsbaAllocator <= c.pMem + c.memSize

NoBlockMem == [a \in Addr |-> Junk]

\* out_of_memory: if (pBlockCount != NULL) *pBlockCount = 0; return NULL
EmplaceFails(c, out) ==
    /\ ret' = NULL
    /\ rc' = out
    /\ pc' = After(out)
    /\ arena' = NoArena
    /\ buf' = [pMem |-> c.pMem, memSize |-> c.memSize, blockSize |-> c.blockSize,
               blockAlign |-> c.blockAlign, blockCount |-> StoredCount(c, 0)]
    /\ UNCHANGED <<mem, liveH, run, phase>>

\* the four members are written and pAllocator is returned
EmplaceSucceeds(c, dz, st) ==
    /\ ret' = pAllocatorOf(c)
    /\ rc' = (IF st = "lost" THEN st ELSE dz)
    /\ pc' = After(IF st = "lost" THEN st ELSE dz)
    /\ arena' = [pAllocator |-> pAllocatorOf(c),
                 pFreeMemBegin |-> pBlockMemBeginOf(c),
                 pFreeMemEnd |-> (pBlockMemBeginOf(c) + memSizeOf(c)) % AddrModulus,
                 blockSize |-> blockSizeOf(c),
                 pFreeBlock |-> NULL]
    /\ buf' = [pMem |-> c.pMem, memSize |-> c.memSize, blockSize |-> c.blockSize,
               blockAlign |-> c.blockAlign,
               blockCount |-> StoredCount(c, blockCountOf(c, dz))]
    /\ UNCHANGED <<mem, liveH, run, phase>>

\* FsbaAllocator* fsbaEmplaceAllocator(pMem, memSize, blockSize, blockAlign,
\* pBlockCount), called once, on a buffer of memSize bytes at pMem
EmplaceAllocator(c) ==
    /\ op' = "fsbaEmplaceAllocator"
    /\ UNCHANGED <<unit, pool, heap, base, args, internVars>>
    /\ IF c.pMem = NULL
       THEN EmplaceFails(c, "none")
       ELSE \E dz \in (IF DividesByZero(c) THEN DivZeroOutcomes ELSE {"none"}) :
            IF dz = "trap" THEN Trap
            ELSE IF memUsedOf(c) > c.memSize
            THEN EmplaceFails(c, dz)
            ELSE \E st \in (IF CtrlInside(c) THEN {"stored"} ELSE {"trap", "lost"}) :
                 IF st = "trap" THEN Trap ELSE EmplaceSucceeds(c, dz, st)

\* is the pointer sized word at address a inside the caller's buffer?
InBuffer(b, a) == b.pMem <= a /\ a + SizeofPtr <= b.pMem + b.memSize

\* What a load of the link at address a may yield: the link stored there, or
\* the indeterminate value of a word the caller wrote.  A load outside the
\* buffer is undefined: it traps, or yields an indeterminate value.
LinkOutcomes(b, m, a) ==
    IF InBuffer(b, a)
    THEN {[kind |-> IF m[a] # Junk THEN "ok" ELSE "wild", val |-> m[a]]}
    ELSE {[kind |-> "trap", val |-> 0], [kind |-> "wild", val |-> Junk]}

\* a block given out belongs to the caller, who may write the blockSize bytes
\* that were asked for, starting at a: the words they touch are the caller's
HandOut(b, m, a) ==
    [w \in Addr |-> IF w < a + b.blockSize /\ a < w + SizeofPtr THEN Junk ELSE m[w]]

\* void* fsbaAllocate(FsbaAllocator* pAllocator), on an emplaced allocator
fsbaAllocate ==
    /\ unit \in ArenaUnits /\ Running /\ arena.pAllocator # NULL
    /\ op' = "fsbaAllocate"
    /\ UNCHANGED <<unit, pool, heap, base, buf, args, internVars>>
    /\ \E out \in Values(arena.pFreeBlock, Addr) :
       IF out # NULL
       THEN \E ld \in LinkOutcomes(buf, mem, out) :
            IF ld.kind = "trap" THEN Trap
            ELSE /\ rc' = "none"
                 /\ pc' = After(ld.kind)
                 /\ ret' = out
                 /\ arena' = [arena EXCEPT !.pFreeBlock = ld.val]
                 /\ mem' = HandOut(buf, mem, out)
                 /\ liveH' = liveH \cup {out}
                 /\ run' = PopRun
                 /\ phase' = "alloc"
       ELSE IF arena.pFreeMemBegin >= arena.pFreeMemEnd
       THEN /\ ret' = NULL /\ rc' = "none" /\ pc' = After("none")
            /\ UNCHANGED <<arena, mem, liveH, run, phase>>
       ELSE /\ rc' = "none" /\ pc' = After("none")
            /\ ret' = arena.pFreeMemBegin
            /\ arena' = [arena EXCEPT !.pFreeMemBegin =
                             (arena.pFreeMemBegin + arena.blockSize) % AddrModulus]
            /\ mem' = HandOut(buf, mem, arena.pFreeMemBegin)
            /\ liveH' = liveH \cup {arena.pFreeMemBegin}
            /\ run' = PopRun
            /\ phase' = "alloc"

\* void fsbaFree(FsbaAllocator* pAllocator, void* pBlock), pBlock a live block
\* or NULL (the caller contract)
fsbaFree(pBlock) ==
    /\ unit \in ArenaUnits /\ Running /\ arena.pAllocator # NULL
    /\ op' = "fsbaFree"
    /\ UNCHANGED <<unit, pool, heap, base, buf, args, internVars>>
    /\ rc' = "none" /\ ret' = 0 /\ pc' = After("none")
    /\ IF pBlock = NULL
       THEN UNCHANGED <<arena, mem, liveH, run, phase>>
       ELSE /\ mem' = [mem EXCEPT ![pBlock] = arena.pFreeBlock]
            /\ arena' = [arena EXCEPT !.pFreeBlock = pBlock]
            /\ liveH' = liveH \ {pBlock}
            /\ run' = IF phase = "free" THEN Append(run, pBlock) ELSE <<pBlock>>
            /\ phase' = "free"

\* the buffers handed to fsbaEmplaceAllocator: no buffer, an aligned and a
\* misaligned one low in the address space, and one near its top
BufferAddrs == {NULL, 3, 4, AddrModulus - 12}
\* the block sizes asked for: small ones, and the ones that round up past the
\* largest size_t
BlockSizeArgs == (0 .. 5) \cup (AddrModulus - 8 .. AddrModulus - 1)
\* the alignments asked for (never 0, the caller contract): small ones, and
\* ones whose product with the pointer alignment does not fit size_t
BlockAlignArgs ==
    {1, 2, 3, 4, 5, 8, 9, AddrModulus \div 2 - 3, AddrModulus \div 2,
     AddrModulus \div 2 + 1, AddrModulus - 8, AddrModulus - 1}
EmplaceArgs ==
    {c \in [pMem : BufferAddrs, memSize : 0 .. MaxMemSize, blockSize : BlockSizeArgs,
            blockAlign : BlockAlignArgs, pBlockCount : {"NULL", "PTR"}] :
        c.pMem + c.memSize < AddrModulus}

\* the one call of fsbaEmplaceAllocator a behaviour makes
fsbaEmplaceAllocator ==
    /\ unit = "arena" /\ pc = "run" /\ op = "none"
    /\ \E c \in EmplaceArgs : EmplaceAllocator(c)

ArenaInit ==
    /\ unit = "arena"
    /\ pool = mpInit(SizeofSizeT)
    /\ heap = NoHeap
    /\ mem = NoBlockMem
    /\ base = 0
    /\ liveH = {}
    /\ arena = NoArena
    /\ buf = NoBuf
    /\ op = "none" /\ ret = 0 /\ rc = "none"
    /\ pc = "run"
    /\ run = <<>>
    /\ phase = "free"
    /\ args = NoArgs
    /\ InternUnused

ArenaNext ==
    \/ fsbaEmplaceAllocator
    \/ fsbaAllocate
    \/ \E pBlock \in liveH \cup {NULL} : fsbaFree(pBlock)

ArenaSpec == ArenaInit /\ [][ArenaNext]_vars

\* The arena on the platform with 8-byte pointers: a buffer of 160 bytes that
\* is aligned for the control structure, blocks of 8 bytes aligned to 8.
Arena64Args ==
    [pMem : {8, 16, 64}, memSize : {160}, blockSize : {8}, blockAlign : {8},
     pBlockCount : {"NULL", "PTR"}]

\* the one call of fsbaEmplaceAllocator a behaviour makes
fsbaEmplaceAllocator64 ==
    /\ unit = "arena64" /\ pc = "run" /\ op = "none"
    /\ \E c \in Arena64Args : EmplaceAllocator(c)

Arena64Init ==
    /\ unit = "arena64"
    /\ pool = mpInit(SizeofSizeT)
    /\ heap = NoHeap
    /\ mem = NoBlockMem
    /\ base = 0
    /\ liveH = {}
    /\ arena = NoArena
    /\ buf = NoBuf
    /\ op = "none" /\ ret = 0 /\ rc = "none"
    /\ pc = "run"
    /\ run = <<>>
    /\ phase = "free"
    /\ args = NoArgs
    /\ InternUnused

\* the caller frees a block only while no other freed block waits for reuse
Arena64Next ==
    \/ fsbaEmplaceAllocator64
    \/ fsbaAllocate
    \/ \E pBlock \in {b \in liveH : arena.pFreeBlock = NULL} \cup {NULL} : fsbaFree(pBlock)

Arena64Spec == Arena64Init /\ [][Arena64Next]_vars

\* ---------------------------------------------------------------------------
\* The alignment utilities of the arena taken alone: one call of one of them
\* with the arguments drawn at the start, in the arithmetic of size_t.
\* (multiple = 0 divides by zero; fsbaEmplaceAllocator models that where it
\* calls them, and a single call is made here with multiple > 0.)
UtilArgs == [num : Addr, multiple : 1 .. AddrModulus - 1]

UtilInit ==
    /\ unit = "util"
    /\ pool = mpInit(SizeofSizeT)
    /\ heap = NoHeap
    /\ mem = NoBlockMem
    /\ base = 0
    /\ liveH = {}
    /\ arena = NoArena
    /\ buf = NoBuf
    /\ op = "none" /\ ret = 0 /\ rc = "none"
    /\ pc = "run"
    /\ run = <<>>
    /\ phase = "free"
    /\ args \in UtilArgs
    /\ InternUnused

UtilCall(name, result) ==
    /\ unit = "util" /\ op = "none"
    /\ op' = name
    /\ ret' = result
    /\ UNCHANGED <<unit, pool, heap, mem, base, liveH, arena, buf, rc, pc, run,
                   phase, args, internVars>>

CallAlignUp == UtilCall("fsba_alignUp", fsba_alignUp(args.num, args.multiple))
CallRoundUp == UtilCall("fsba_roundUp", fsba_roundUp(args.num, args.multiple))
CallRoundDown == UtilCall("fsba_roundDown", fsba_roundDown(args.num, args.multiple))

UtilNext == CallAlignUp \/ CallRoundUp \/ CallRoundDown

UtilSpec == UtilInit /\ [][UtilNext]_vars

(***************************************************************************)
(* intern.hpp (lines 38-94)                                                *)
(***************************************************************************)
SizeModulus == Pow2(SizeBits)
SizeTypeMax == SizeModulus - 1
\* the values of T; Equal holds of two of them when they are the same number
Vals == 1 .. MaxVals
Handles == 1 .. MaxHandles
\* the addresses a node of the unordered_map can be allocated at
Nodes == 1 .. MaxVals + 1
nullptr == 0
\* no node is allocated at an address
NoEntry == [first |-> 0, second |-> 0]
EmptyMap == [n \in Nodes |-> NoEntry]

\* static Size size() { return map.size(); }
MapSize(m) == Cardinality({n \in Nodes : m[n] # NoEntry})

\* the node that holds a key equal to value, if there is one
MapFind(m, value) == {n \in Nodes : m[n].first = value}

\* map.insert({value, 0}).first: the node with an equal key, or else a new
\* node (value, 0) at an address the allocator picks; the insertion throws
\* when the allocator has no memory
MapInsert(m, value) ==
    IF MapFind(m, value) # {}
    THEN {[kind |-> "none", node |-> n, map |-> m] : n \in MapFind(m, value)}
    ELSE {[kind |-> "none", node |-> n,
           map |-> [m EXCEPT ![n] = [first |-> value, second |-> 0]]] :
             n \in {x \in Nodes : m[x] = NoEntry}}
         \cup {[kind |-> "bad_alloc", node |-> nullptr, map |-> m]}

\* map.erase(key)
MapErase(m, key) == [n \in Nodes |-> IF m[n].first = key THEN NoEntry ELSE m[n]]

\* does the pointer p of an object bound to value v still refer to its entry?
\* The entry may have been erased, and its address given to another one.
Refers(m, p, v) == p # nullptr /\ m[p].first = v

\* void release(): erase the entry when second <= 1, else count down
release(m, p) ==
    IF p # nullptr
    THEN IF m[p].second <= 1 THEN MapErase(m, m[p].first)
         ELSE [m EXCEPT ![p].second = @ - 1]
    ELSE m

\* release() through the pointer p of an object bound to v.  Through a
\* pointer to an erased entry it is undefined: it traps, or it works on what
\* is at that address now: another entry, or freed memory whose count and key
\* are indeterminate.
ReleaseOutcomes(m, p, v) ==
    IF p = nullptr \/ Refers(m, p, v)
    THEN {[kind |-> "none", map |-> release(m, p)]}
    ELSE {[kind |-> "trap", map |-> m]} \cup
         (IF m[p] # NoEntry
          THEN {[kind |-> "wild", map |-> release(m, p)]}
          ELSE {[kind |-> "wild", map |-> x] :
                   x \in {m} \cup {MapErase(m, k) : k \in Vals}})

\* pPair->second += 1, in the counter type Size
Increment(m, pPair) == [m EXCEPT ![pPair].second = (@ + 1) % SizeModulus]

\* the increment through pPair, the pointer of an object bound to v; through
\* a pointer to an erased entry it is undefined: it traps, or it counts up
\* what is at that address now, or is lost in freed memory
IncrementOutcomes(m, pPair, v) ==
    IF Refers(m, pPair, v)
    THEN {[kind |-> "none", map |-> Increment(m, pPair)]}
    ELSE {[kind |-> "trap", map |-> m],
          [kind |-> "wild", map |-> IF m[pPair] # NoEntry THEN Increment(m, pPair) ELSE m]}

\* the worse of what two steps of a call did
Worse(a, b) ==
    IF "trap" \in {a, b} THEN "trap" ELSE IF "wild" \in {a, b} THEN "wild" ELSE "none"

\* an acquire that lets go of the old entry before it counts up the new one
releaseThenAcquire(m, p, pv, pPair, v) ==
    UNION {{[kind |-> Worse(inc.kind, rel.kind),
             steps |-> <<[step |-> "release", node |-> p, map |-> rel.map],
                         [step |-> "acquire", node |-> pPair, map |-> inc.map]>>] :
               inc \in IncrementOutcomes(rel.map, pPair, v)} :
           rel \in ReleaseOutcomes(m, p, pv)}

\* void acquire(pair_type* pPair) { pPair->second += 1; release(); ptr = pPair; }
\* called on an object whose ptr is p and which is bound to pv, to bind it to
\* the entry at pPair, of value v: the steps it takes and the map each leaves
acquire(m, p, pv, pPair, v) ==
    UNION {{[kind |-> Worse(inc.kind, rel.kind),
             steps |-> <<[step |-> "acquire", node |-> pPair, map |-> inc.map],
                         [step |-> "release", node |-> p, map |-> rel.map]>>] :
               rel \in ReleaseOutcomes(inc.map, p, pv)} :
           inc \in IncrementOutcomes(m, pPair, v)}

NoObjects == [h \in Handles |-> 0]
NoKeptObjects == [objects |-> 0, ptr |-> 0, val |-> 0]

\* undefined behaviour trapped inside a call of interned<T>
InternTrap ==
    /\ pc' = "crashed" /\ rc' = "trap" /\ ret' = 0
    /\ map' = EmptyMap /\ ptrOf' = NoObjects /\ held' = NoObjects
    /\ bg' = NoKeptObjects /\ log' = <<>>

\* the end of acquire, ptr = pPair, after the steps pre and those of o
Bind(h, pPair, v, pre, o) ==
    IF o.kind = "trap" THEN InternTrap
    ELSE /\ rc' = o.kind /\ pc' = After(o.kind) /\ ret' = h
         /\ map' = o.steps[Len(o.steps)].map
         /\ ptrOf' = [ptrOf EXCEPT ![h] = pPair]
         /\ held' = [held EXCEPT ![h] = v]
         /\ log' = pre \o o.steps
         /\ UNCHANGED bg

\* map.insert threw std::bad_alloc: the call is abandoned
Throws ==
    /\ rc' = "bad_alloc" /\ pc' = After("none") /\ ret' = 0 /\ log' = <<>>
    /\ UNCHANGED <<map, ptrOf, held, bg>>

\* interned(const T& value) { acquire(&*map.insert({value, 0}).first); }
Construct(h, value) ==
    /\ unit = "intern" /\ Running /\ ptrOf[h] = nullptr
    /\ op' = "construct"
    /\ UNCHANGED <<unit, pool, heap, mem, base, liveH, arena, buf, run, phase, args>>
    /\ \E ins \in MapInsert(map, value) :
        IF ins.kind = "bad_alloc" THEN Throws
        ELSE \E o \in acquire(ins.map, nullptr, 0, ins.node, value) :
             Bind(h, ins.node, value,
                  <<[step |-> "insert", node |-> ins.node, map |-> ins.map]>>, o)

\* interned(const interned& other) and interned(interned&& other):
\* { acquire(other.ptr); }
ConstructFrom(h, other, how) ==
    /\ unit = "intern" /\ Running /\ ptrOf[h] = nullptr /\ ptrOf[other] # nullptr
    /\ op' = how
    /\ UNCHANGED <<unit, pool, heap, mem, base, liveH, arena, buf, run, phase, args>>
    /\ \E o \in acquire(map, nullptr, 0, ptrOf[other], held[other]) :
        Bind(h, ptrOf[other], held[other], <<>>, o)

CopyConstruct(h, other) == ConstructFrom(h, other, "copy_construct")
MoveConstruct(h, other) == ConstructFrom(h, other, "move_construct")

\* operator=(const T& value) { acquire(&*map.insert({value, 0}).first); return *this; }
AssignValue(h, value) ==
    /\ unit = "intern" /\ Running /\ ptrOf[h] # nullptr
    /\ op' = "assign_value"
    /\ UNCHANGED <<unit, pool, heap, mem, base, liveH, arena, buf, run, phase, args>>
    /\ \E ins \in MapInsert(map, value) :
        IF ins.kind = "bad_alloc" THEN Throws
        ELSE \E o \in acquire(ins.map, ptrOf[h], held[h], ins.node, value) :
             Bind(h, ins.node, value,
                  <<[step |-> "insert", node |-> ins.node, map |-> ins.map]>>, o)

\* operator=(const interned& other) and operator=(interned&& other):
\* { acquire(other.ptr); return *this; }
AssignFrom(h, other, how) ==
    /\ unit = "intern" /\ Running /\ ptrOf[h] # nullptr /\ ptrOf[other] # nullptr
    /\ op' = how
    /\ UNCHANGED <<unit, pool, heap, mem, base, liveH, arena, buf, run, phase, args>>
    /\ \E o \in acquire(map, ptrOf[h], held[h], ptrOf[other], held[other]) :
        Bind(h, ptrOf[other], held[other], <<>>, o)

AssignCopy(h, other) == AssignFrom(h, other, "assign_copy")
AssignMove(h, other) == AssignFrom(h, other, "assign_move")

\* ~interned() noexcept { release(); }
Destroy(h) ==
    /\ unit = "intern" /\ Running /\ ptrOf[h] # nullptr
    /\ op' = "destroy"
    /\ UNCHANGED <<unit, pool, heap, mem, base, liveH, arena, buf, run, phase, args>>
    /\ \E rel \in ReleaseOutcomes(map, ptrOf[h], held[h]) :
        IF rel.kind = "trap" THEN InternTrap
        ELSE /\ rc' = rel.kind /\ pc' = After(rel.kind) /\ ret' = 0
             /\ map' = rel.map
             /\ ptrOf' = [ptrOf EXCEPT ![h] = nullptr]
             /\ held' = [held EXCEPT ![h] = 0]
             /\ log' = <<[step |-> "release", node |-> ptrOf[h], map |-> rel.map]>>
             /\ UNCHANGED bg

\* The store when the program starts on its MaxHandles objects: empty; or
\* already holding value 1, referred to by SizeTypeMax - 1 objects that were
\* constructed from it before and are kept for good.
InternInit ==
    /\ unit = "intern"
    /\ pool = mpInit(SizeofSizeT) /\ heap = NoHeap /\ mem = NoMem /\ base = 0
    /\ liveH = {} /\ arena = NoArena /\ buf = NoBuf
    /\ op = "none" /\ ret = 0 /\ rc = "none" /\ pc = "run"
    /\ run = <<>> /\ phase = "free" /\ args = NoArgs
    /\ \E k \in {0, SizeTypeMax - 1} :
        /\ map = [n \in Nodes |->
                    IF n = 1 /\ k > 0 THEN [first |-> 1, second |-> k] ELSE NoEntry]
        /\ bg = IF k > 0 THEN [objects |-> k, ptr |-> 1, val |-> 1] ELSE NoKeptObjects
    /\ ptrOf = NoObjects /\ held = NoObjects /\ log = <<>>

InternNext ==
    \/ \E h \in Handles, value \in Vals : Construct(h, value)
    \/ \E h, other \in Handles : CopyConstruct(h, other)
    \/ \E h, other \in Handles : MoveConstruct(h, other)
    \/ \E h \in Handles, value \in Vals : AssignValue(h, value)
    \/ \E h, other \in Handles : AssignCopy(h, other)
    \/ \E h, other \in Handles : AssignMove(h, other)
    \/ \E h \in Handles : Destroy(h)

InternSpec == InternInit /\ [][InternNext]_vars

Init == PoolInit \/ ArenaInit
Next == PoolNext \/ ArenaNext
Spec == Init /\ [][Next]_vars

(***************************************************************************)
(* Properties                                                              *)
(***************************************************************************)

\* the least common multiple of a and b, as an integer
LeastCommonMultiple(a, b) == (a * b) \div fsba_GCD(a, b)

\* C1: fsbaEmplaceAllocator, for every blockSize, memSize and blockAlign > 0,
\* returns: NULL with a stored block count of 0, or an allocator whose every
\* later non null fsbaAllocate result is a multiple of lcm(blockAlign, pointer
\* alignment) and is at least blockSize bytes away from every other live block.
C1_AlignedDisjointBlocks ==
    [][/\ (op' = "fsbaEmplaceAllocator" =>
              /\ pc' # "crashed"
              /\ (ret' = NULL => buf'.blockCount \in {0, Junk}))
       /\ (op' = "fsbaAllocate" /\ pc' # "crashed" /\ ret' # NULL =>
              /\ ret' % LeastCommonMultiple(buf.blockAlign, AlignofPtr) = 0
              /\ ret' \notin liveH
              /\ \A b \in liveH : ret' + buf.blockSize <= b \/ b + buf.blockSize <= ret')
      ]_vars

\* C2: mpAlloc never returns a handle that is live.
C2_NoLiveHandleReturned ==
    [][(op' = "mpAlloc" /\ pc' # "crashed" /\ ret' # MP_INVALID_HANDLE)
          => ret' \notin liveH]_vars

\* C3: after an fsbaEmplaceAllocator that stored the block count B,
\* fsbaAllocate returns NULL exactly when B blocks are live, and a call that
\* returns NULL leaves the allocator as it was.
C3_NullExactlyWhenExhausted ==
    [][(op' = "fsbaAllocate" /\ pc' # "crashed" /\ buf.blockCount # Junk) =>
          /\ (ret' = NULL) <=> (Cardinality(liveH) = buf.blockCount)
          /\ ret' = NULL => arena' = arena
      ]_vars

\* C4: in the arena and in the pool, when blocks (handles) b1, ..., bk were
\* freed in that order with no allocation in between, the next allocations
\* return bk, ..., b1 in that order: each returns the last one of the run that
\* was not yet returned.
C4_LifoReuse ==
    [][(op' \in {"mpAlloc", "fsbaAllocate"} /\ pc' # "crashed" /\ run # <<>>)
          => ret' = run[Len(run)]]_vars

\* C5: every live handle h satisfies h < hFreeArray <= capacity, from the
\* state mpAlloc returned it in until it is freed or the pool is torn down;
\* and mpGrowPool changes neither hFreeArray, nor hFreeList, nor the set of
\* live handles.
C5_LiveHandlesBelowCursor ==
    [][pc' # "crashed" =>
          /\ \A h \in liveH' : h < pool'.hFreeArray /\ pool'.hFreeArray <= pool'.capacity
          /\ op' = "mpGrowPool" =>
                /\ pool'.hFreeArray = pool.hFreeArray
                /\ pool'.hFreeList = pool.hFreeList
                /\ liveH' = liveH
      ]_vars

\* C6: when realloc fails for want of memory (it returns NULL and leaves the
\* old storage as it is), mpGrowPool returns -1, mpAlloc returns
\* MP_INVALID_HANDLE, and the pool, its storage, the links in it and the live
\* handles are what they were before the call.
C6_OutOfMemoryLeavesPool ==
    [][(op' \in {"mpGrowPool", "mpAlloc"} /\ rc' = "null_kept") =>
          /\ ret' = (IF op' = "mpAlloc" THEN MP_INVALID_HANDLE ELSE RET_FAIL)
          /\ pool' = pool /\ heap' = heap /\ mem' = mem /\ liveH' = liveH
      ]_vars

\* a call of mpAlloc ran out of memory while handles were live
C6_Witness ==
    /\ op = "mpAlloc" /\ rc = "null_kept" /\ pc = "run"
    /\ ret = MP_INVALID_HANDLE /\ liveH # {} /\ pool.capacity > 0

\* C7: mpGrowPool(n) with capacity + n above the largest size_t returns -1,
\* does not call realloc and changes nothing; otherwise, when it returns 0,
\* capacity is capacity + n.
C7_GrowOverflowChecked ==
    [][\A n \in {k \in GrowArgs : op' = "mpGrowPool"} : mpGrowPool(n) =>
          IF pool.capacity + n > SIZE_MAX
          THEN /\ ret' = RET_FAIL /\ rc' = "none"
               /\ pool' = pool /\ heap' = heap /\ mem' = mem /\ liveH' = liveH
          ELSE (ret' = RET_OK /\ pc' # "crashed") => pool'.capacity = pool.capacity + n
      ]_vars

\* mpGrowPool refused a growth whose sum wraps, on a pool that has storage
C7_Witness ==
    /\ op = "mpGrowPool" /\ ret = RET_FAIL /\ rc = "none" /\ pc = "run"
    /\ pool.capacity > 0 /\ pool.pBlocks = "PTR"

\* C8: mpGrowPool, mpAlloc and mpFree never lower capacity, and mpFreePool
\* makes it 0.
C8_CapacityMonotone ==
    [][pc' # "crashed" =>
          IF op' = "mpFreePool" THEN pool'.capacity = 0
          ELSE pool'.capacity >= pool.capacity
      ]_vars

\* mpAlloc found the pool full at a capacity whose growth wraps, and failed
C8_Witness ==
    /\ op = "mpAlloc" /\ ret = MP_INVALID_HANDLE /\ rc = "none" /\ pc = "run"
    /\ pool.capacity = pool.hFreeArray
    /\ pool.capacity * MP_GROWTH_FACTOR_NUMERATOR > SIZE_MAX

\* C9: mpFreePool frees the storage and leaves the pool as mpInit made it,
\* blockSize aside, whatever state it is called in.
C9_FreePoolResets ==
    op = "mpFreePool" =>
        /\ pc # "crashed" /\ rc = "none"
        /\ pool = mpInit(pool.blockSize) /\ heap = NoHeap /\ liveH = {}

\* C10: an mpAlloc that hands out a handle returns a handle that is not
\* MP_INVALID_HANDLE, and mpAlloc returns MP_INVALID_HANDLE only when the pool
\* was full and its growth failed: the new capacity wrapped, or realloc
\* returned NULL.
C10_InvalidHandleOnlyOnFailure ==
    [][(op' = "mpAlloc" /\ pc' # "crashed") =>
          /\ liveH' # liveH => (ret' # MP_INVALID_HANDLE /\ ret' \in liveH')
          /\ ret' = MP_INVALID_HANDLE =>
                /\ liveH' = liveH
                /\ NeedsGrowth(pool)
                /\ GrowthOverflows(pool) \/ rc' \in {"null_kept", "null_freed", "wild_null"}
      ]_vars

\* mpAlloc returned the largest handle there is, at the largest capacity
C10_Witness ==
    /\ op = "mpAlloc" /\ pc = "run" /\ ret = SIZE_MAX - 1
    /\ pool.capacity = SIZE_MAX /\ pool.hFreeArray = SIZE_MAX
    /\ ret \in liveH

\* C11: fsbaFree(allocator, NULL) and mpFree(pool, MP_INVALID_HANDLE) change
\* nothing: every field of the allocator and of the pool, every stored link,
\* the storage and the live blocks are what they were, and the call does not
\* fail.
C11_FreeOfEmptyMarker ==
    [][(fsbaFree(NULL) \/ mpFree(MP_INVALID_HANDLE)) =>
          /\ pool' = pool /\ heap' = heap /\ arena' = arena
          /\ mem' = mem /\ liveH' = liveH
          /\ pc' # "crashed"]_vars

\* mpFree(pool, MP_INVALID_HANDLE) was called while the free list was not
\* empty, and the head of the list is still there
C11_Witness ==
    /\ op = "mpFree" /\ phase = "alloc" /\ pc = "run"
    /\ pool.hFreeList # MP_INVALID_HANDLE
    /\ mem[mpNext(pool, pool.hFreeList)] # Junk

\* the smallest multiple of m that is at least n, as an integer
MultipleAtOrAbove(n, m) == ((n + m - 1) \div m) * m
\* the largest multiple of m that is at most n, as an integer
MultipleAtOrBelow(n, m) == (n \div m) * m
\* for the arguments b of a call of fsbaEmplaceAllocator: the effective
\* alignment and size of a block, and the bytes of the buffer consumed before
\* the first block (padding, control structure, padding), as integers
EffectiveAlign(b) == LeastCommonMultiple(b.blockAlign, AlignofPtr)
EffectiveBlockSize(b) ==
    MultipleAtOrAbove(IF b.blockSize < SizeofPtr THEN SizeofPtr ELSE b.blockSize,
                      EffectiveAlign(b))
Consumed(b) ==
    MultipleAtOrAbove(MultipleAtOrAbove(b.pMem, AlignofFsbaAllocator) + SizeofFsbaAllocator,
                      EffectiveAlign(b)) - b.pMem

\* C12: fsbaEmplaceAllocator returns NULL and stores the block count 0, writing
\* nothing into the buffer, exactly when pMem is NULL or the bytes consumed
\* before the first block exceed memSize; otherwise it returns the allocator
\* and stores the block count (memSize - consumed) div (effective block size).
C12_EmplaceResult ==
    [][op' = "fsbaEmplaceAllocator" =>
          /\ pc' = "run"
          /\ IF buf'.pMem = NULL \/ Consumed(buf') > buf'.memSize
             THEN ret' = NULL /\ buf'.blockCount \in {0, Junk} /\ arena' = NoArena
             ELSE /\ ret' # NULL
                  /\ buf'.blockCount \in
                        {(buf'.memSize - Consumed(buf')) \div EffectiveBlockSize(buf'), Junk}
      ]_vars

\* C13 as stated: with a buffer of 160 bytes aligned for the control structure,
\* blockSize 8, blockAlign 8 and 8-byte pointers, fsbaEmplaceAllocator
\* succeeds, fsbaAllocate succeeds while fewer than 20 blocks are live and
\* returns NULL when 20 are, and after a free it returns the block just freed.
C13_TwentyBlocks ==
    [][/\ op' = "fsbaEmplaceAllocator" => ret' # NULL
       /\ op' = "fsbaAllocate" =>
             /\ Cardinality(liveH) < 20 => ret' # NULL
             /\ Cardinality(liveH) = 20 => ret' = NULL
             /\ run # <<>> => ret' = run[Len(run)]
      ]_vars

\* C13, amended: the control structure takes 32 of the 160 bytes, so 16 blocks
\* fit: fsbaEmplaceAllocator succeeds and stores the block count 16,
\* fsbaAllocate succeeds while fewer than 16 blocks are live and returns NULL
\* when 16 are, and after a free it returns the block just freed.
C13_SixteenBlocks ==
    [][/\ op' = "fsbaEmplaceAllocator" =>
             ret' # NULL /\ pc' = "run" /\ buf'.blockCount \in {16, Junk}
       /\ op' = "fsbaAllocate" =>
             /\ pc' = "run"
             /\ Cardinality(liveH) < 16 => ret' # NULL
             /\ Cardinality(liveH) = 16 => ret' = NULL
             /\ run # <<>> => ret' = run[Len(run)]
      ]_vars

\* all 16 blocks are live again after the arena was exhausted, one block was
\* freed and fsbaAllocate returned it
C13_Witness ==
    /\ unit = "arena64" /\ op = "fsbaAllocate" /\ pc = "run"
    /\ Cardinality(liveH) = 16 /\ buf.blockCount = 16
    /\ arena.pFreeMemBegin = arena.pFreeMemEnd
    /\ ret \notin {NULL, arena.pFreeMemEnd - arena.blockSize}

\* the interned<T> objects that are live: the pointer and the value of each,
\* for the objects the program works with and for those it keeps for good
LiveObjects ==
    {[ptr |-> ptrOf[h], val |-> held[h]] : h \in {x \in Handles : ptrOf[x] # nullptr}}
    \cup (IF bg.objects > 0 THEN {[ptr |-> bg.ptr, val |-> bg.val]} ELSE {})
\* the number of live objects whose pointer is the node n
ObjectsAt(n) ==
    Cardinality({h \in Handles : ptrOf[h] = n}) + (IF bg.ptr = n THEN bg.objects ELSE 0)

\* C14: any two live interned<T> objects compare equal (have the same ptr)
\* exactly when the values they hold are equal, and no two entries of the
\* store have equal keys.
C14_CanonicalIdentity ==
    /\ \A a, b \in LiveObjects : (a.ptr = b.ptr) <=> (a.val = b.val)
    /\ \A n1, n2 \in Nodes :
          map[n1] # NoEntry /\ map[n1].first = map[n2].first => n1 = n2

\* C15: between calls, the count of every entry is the number of live objects
\* whose pointer refers to it, which is more than 0, and every live object
\* refers to an entry of the store.
C15_RefcountIsObjectCount ==
    /\ \A n \in Nodes : map[n] # NoEntry =>
          map[n].second = ObjectsAt(n) /\ map[n].second > 0
    /\ \A o \in LiveObjects : Refers(map, o.ptr, o.val)

\* C16: between calls, size() is the number of distinct values that live
\* objects hold.
C16_SizeIsDistinctValues ==
    MapSize(map) = Cardinality({o.val : o \in LiveObjects})

\* the map before step i of the call that was just made
MapBefore(i) == IF i = 1 THEN map ELSE log'[i - 1].map
\* was the entry at node n erased by a step of the call that was just made?
ErasedDuring(n) ==
    \E i \in 1 .. Len(log') : MapBefore(i)[n] # NoEntry /\ log'[i].map[n] = NoEntry

\* C17: for a live object x whose entry has a count of 1 or more, x = *x and
\* x = x do not erase the entry of x at any step: the entry is in the store
\* after every step, size() is the same after every step as before the
\* assignment, and the count is the same after the assignment as before it.
C17_SelfAssignmentKeepsEntry ==
    [][\A x \in Handles :
          /\ pc = "run" /\ Refers(map, ptrOf[x], held[x]) /\ map[ptrOf[x]].second >= 1
          /\ (AssignValue(x, held[x]) \/ AssignCopy(x, x) \/ AssignMove(x, x))
          => /\ pc' = "run"
             /\ \A i \in 1 .. Len(log') :
                   /\ log'[i].map[ptrOf[x]].first = held[x]
                   /\ MapSize(log'[i].map) = MapSize(map)
             /\ map'[ptrOf[x]].second = map[ptrOf[x]].second
             /\ ptrOf'[x] = ptrOf[x]
      ]_vars

\* C19: every assignment to a live object x counts up the entry it assigns
\* before it counts down or erases the entry x held; and when x is the only
\* object that refers to its entry and is assigned a value equal to its own,
\* or the value or the handle of another live object, no entry that a live
\* object refers to after the assignment is erased during it.
C19_AcquireBeforeRelease ==
    [][/\ pc = "run" /\ pc' = "run" /\ rc' # "bad_alloc"
       /\ op' \in {"assign_value", "assign_copy", "assign_move"}
       => /\ \E i, j \in 1 .. Len(log') :
                /\ i < j /\ log'[i].step = "acquire" /\ log'[j].step = "release"
                /\ \A k \in 1 .. Len(log') : log'[k].step = "release" => k = j
          /\ (/\ Refers(map, ptrOf[ret'], held[ret'])
              /\ map[ptrOf[ret']].second = 1 /\ ObjectsAt(ptrOf[ret']) = 1)
             => \A o \in LiveObjects' : ~ErasedDuring(o.ptr)
      ]_vars

\* the only object that referred to its entry was assigned a value equal to
\* its own: the count went from 1 to 2 and back to 1, and the entry stayed
C19_Witness ==
    /\ op = "assign_value" /\ pc = "run" /\ Len(log) = 3
    /\ log[1].map[log[1].node].second = 1
    /\ log[2].map[log[1].node].second = 2
    /\ log[3].node = log[1].node
    /\ map[log[1].node].second = 1
    /\ ptrOf[ret] = log[1].node

\* C18: for every n >= 0 and every multiple m > 0, power of two or not, for
\* which the result fits size_t, fsba_roundUp(n, m) and fsba_alignUp(n, m)
\* return the smallest multiple of m that is >= n (n itself when n is a
\* multiple of m), and fsba_roundDown(n, m) returns the largest multiple of m
\* that is <= n.
C18_AlignmentUtilities ==
    unit = "util" /\ op # "none" =>
        LET n == args.num
            m == args.multiple
        IN  /\ (op \in {"fsba_roundUp", "fsba_alignUp"} /\ MultipleAtOrAbove(n, m) < AddrModulus)
                => ret % m = 0 /\ ret >= n /\ ret - n < m
            /\ op = "fsba_roundDown"
                => ret % m = 0 /\ ret <= n /\ n - ret < m

\* C18 restricted to what the code does satisfy: the multiples that are powers
\* of two, and every multiple when n > 0
C18_PowerOfTwoOrPositive ==
    unit = "util" /\ op # "none" =>
        LET n == args.num
            m == args.multiple
        IN  /\ (/\ op \in {"fsba_roundUp", "fsba_alignUp"}
                /\ MultipleAtOrAbove(n, m) < AddrModulus
                /\ (n > 0 \/ \E k \in 0 .. PtrBits : m = Pow2(k)))
                => ret % m = 0 /\ ret >= n /\ ret - n < m
            /\ op = "fsba_roundDown"
                => ret % m = 0 /\ ret <= n /\ n - ret < m

\* max(floor(3c / 2), c + 1) in the integers
GrownCapacity(c) ==
    IF (3 * c) \div 2 > c + 1 THEN (3 * c) \div 2 ELSE c + 1

\* C20: mpAlloc changes the capacity only when the free list is empty and the
\* bump cursor equals the capacity; in that case, when 3 * capacity does not
\* overflow size_t and the resize succeeds, the new capacity is
\* max(floor(3 * capacity / 2), capacity + 1) and the handle returned is the
\* old value of the bump cursor.  (Stated of calls made while the fields of
\* the pool hold determinate values.)
C20_GrowthPolicy ==
    [][(op' = "mpAlloc" /\ pc = "run" /\ pc' # "crashed") =>
          /\ pool'.capacity # pool.capacity =>
                /\ pool.hFreeList = MP_INVALID_HANDLE
                /\ pool.hFreeArray = pool.capacity
          /\ (/\ pool.hFreeList = MP_INVALID_HANDLE
              /\ pool.hFreeArray = pool.capacity
              /\ 3 * pool.capacity <= SIZE_MAX
              /\ rc' = "ok")
             => /\ pool'.capacity = GrownCapacity(pool.capacity)
                /\ ret' = pool.hFreeArray
                /\ pool'.hFreeArray = pool.hFreeArray + 1
      ]_vars

\* mpAlloc found the pool full at capacity 4, grew it to 6 and returned 4
C20_Witness ==
    /\ op = "mpAlloc" /\ pc = "run" /\ rc = "ok"
    /\ ret = 4 /\ pool.capacity = 6 /\ pool.hFreeArray = 5
    /\ pool.hFreeList = MP_INVALID_HANDLE

\* C21: for every capacity whose product capacity * 3 wraps modulo 2^w, the
\* check newCapacity < capacity finds it: an mpAlloc that has to grow such a
\* pool returns MP_INVALID_HANDLE and leaves the pool, its storage and the
\* live handles as they were; and no mpAlloc resizes the pool to a capacity
\* that is not above the bump cursor.
C21_GrowthFactorOverflowChecked ==
    [][/\ \A c \in SizeT :
            LET this == [pool EXCEPT !.capacity = c]
            IN  /\ 3 * c > SIZE_MAX => GrowthOverflows(this)
                /\ ~GrowthOverflows(this) => AllocCapacity(this) > c
       /\ (op' = "mpAlloc" /\ pc = "run") =>
            /\ (/\ pool.hFreeList = MP_INVALID_HANDLE
                /\ NeedsGrowth(pool)
                /\ 3 * pool.capacity > SIZE_MAX)
               => /\ ret' = MP_INVALID_HANDLE /\ pc' = "run"
                  /\ pool' = pool /\ heap' = heap /\ mem' = mem /\ liveH' = liveH
            /\ (pc' # "crashed" /\ pool'.capacity # pool.capacity)
               => pool'.capacity > pool.hFreeArray
      ]_vars

\* mpAlloc refused to grow a full pool of the largest capacity while every
\* handle below the cursor was live
C21_Witness ==
    /\ op = "mpAlloc" /\ ret = MP_INVALID_HANDLE /\ rc = "none" /\ pc = "run"
    /\ pool.capacity = SIZE_MAX /\ pool.hFreeArray = SIZE_MAX
    /\ pool.hFreeList = MP_INVALID_HANDLE
    /\ SIZE_MAX - 1 \in liveH

\* C22: after every mpGrowPool and every growing mpAlloc that succeeds, the
\* storage holds at least capacity * blockSize bytes (the byte count handed to
\* realloc did not wrap); and no such call succeeds, or frees the storage
\* through a reallocation to zero bytes, while the recorded capacity is above
\* the number of slots the storage holds.
C22_StorageHoldsCapacity ==
    [][(/\ op' \in {"mpGrowPool", "mpAlloc"} /\ pc = "run"
        /\ rc' \in {"ok", "null_freed"})
       => pool'.capacity * pool'.blockSize <= heap'.bytes
      ]_vars

\* C23: after a successful fsbaEmplaceAllocator the control structure lies
\* inside [pMem, pMem + memSize); in every state after it pFreeMemEnd -
\* pFreeMemBegin is a non-negative multiple of blockSize and pFreeMemEnd <=
\* pMem + memSize; every live block lies with all its blockSize bytes inside
\* the buffer and after the control structure; pFreeMemEnd and blockSize never
\* change, and pFreeMemBegin never decreases.
C23_ArenaContainment ==
    [][(pc = "run" /\ pc' # "crashed" /\ arena'.pAllocator # NULL) =>
          LET a == arena'
              b == buf'
              ctrlEnd == a.pAllocator + SizeofFsbaAllocator
          IN  /\ b.pMem <= a.pAllocator /\ ctrlEnd <= b.pMem + b.memSize
              /\ a.pFreeMemBegin <= a.pFreeMemEnd
              /\ a.blockSize > 0
              /\ (a.pFreeMemEnd - a.pFreeMemBegin) % a.blockSize = 0
              /\ a.pFreeMemEnd <= b.pMem + b.memSize
              /\ ctrlEnd <= a.pFreeMemBegin
              /\ \A p \in liveH' :
                    /\ ctrlEnd <= p
                    /\ p + a.blockSize <= b.pMem + b.memSize
                    /\ p + a.blockSize <= a.pFreeMemBegin
              /\ arena.pAllocator # NULL =>
                    /\ a.pFreeMemEnd = arena.pFreeMemEnd
                    /\ a.blockSize = arena.blockSize
                    /\ a.pFreeMemBegin >= arena.pFreeMemBegin
      ]_vars

\* the blocks carved by bumping since fsbaEmplaceAllocator
CarvedBlocks ==
    ((arena.pFreeMemBegin - pBlockMemBeginOf(buf)) % AddrModulus) \div arena.blockSize

\* C24: an allocation advances the bump pointer (arena) or the bump index
\* (pool) only when the free list is empty, and the pool does not grow its
\* capacity in mpAlloc while a freed slot is on the list; so the number of
\* blocks carved by bumping is the largest number of blocks that were live at
\* one time so far.  (That number is the number carved exactly when no more
\* blocks are live than were carved and every bump is made with all the carved
\* blocks live, which is how it is stated.)
C24_FreeListPreferred ==
    [][(pc = "run" /\ pc' = "run") =>
          /\ (unit = "pool" /\ op' \in {"mpAlloc", "mpFree", "mpGrowPool"}) =>
                /\ Cardinality(liveH') <= pool'.hFreeArray
                /\ pool'.hFreeArray # pool.hFreeArray =>
                      /\ op' = "mpAlloc"
                      /\ pool.hFreeList = MP_INVALID_HANDLE
                      /\ Cardinality(liveH) = pool.hFreeArray
                      /\ pool'.hFreeArray = pool.hFreeArray + 1
                      /\ Cardinality(liveH') = pool'.hFreeArray
                /\ (op' = "mpAlloc" /\ pool'.capacity # pool.capacity) =>
                      pool.hFreeList = MP_INVALID_HANDLE
          /\ (unit = "arena" /\ arena.pAllocator # NULL /\ arena.blockSize > 0) =>
                /\ Cardinality(liveH') <= CarvedBlocks'
                /\ arena'.pFreeMemBegin # arena.pFreeMemBegin =>
                      /\ op' = "fsbaAllocate"
                      /\ arena.pFreeBlock = NULL
                      /\ Cardinality(liveH) = CarvedBlocks
                      /\ CarvedBlocks' = CarvedBlocks + 1
                      /\ Cardinality(liveH') = CarvedBlocks'
      ]_vars

\* an allocation took the head of a free list of two slots and left the bump
\* index where it was: two slots were carved, one is live, one is free
C24_Witness ==
    /\ unit = "pool" /\ op = "mpAlloc" /\ pc = "run" /\ rc = "none"
    /\ pool.hFreeArray = 2 /\ Cardinality(liveH) = 1 /\ ret \in liveH
    /\ pool.hFreeList \in {0, 1} /\ pool.hFreeList # ret

\* C25: for every blockAlign > 0 and every blockSize, the effective alignment
\* fsbaEmplaceAllocator computes is the least common multiple of blockAlign
\* and the alignment of a pointer, and the effective block size is the
\* smallest multiple of it that is >= max(blockSize, sizeof(void*)): every
\* block is at least as large as was asked for and holds a free-list link.
C25_EffectiveGeometry ==
    [][(/\ op' = "fsbaEmplaceAllocator" /\ pc' # "crashed"
        /\ ret' # NULL /\ buf'.blockAlign > 0)
       => /\ blockAlignOf(buf') = EffectiveAlign(buf')
          /\ blockAlignOf(buf') > 0
          /\ arena'.blockSize = EffectiveBlockSize(buf')
          /\ arena'.blockSize >= buf'.blockSize
          /\ arena'.blockSize >= SizeofPtr
      ]_vars

\* C27: in the second revision too, mpFree(pool, MP_INVALID_HANDLE) does
\* nothing: the head of the free list and every other field of the pool are
\* unchanged, no link is written, the call does not fail, and the slots that
\* were on the free list are still there for the next mpAlloc calls.
C27_SecondRevisionFreeOfInvalid ==
    [][(pc = "run" /\ mpFree_(MP_INVALID_HANDLE)) =>
          /\ pool' = pool /\ heap' = heap /\ mem' = mem /\ liveH' = liveH
          /\ run' = run
          /\ pc' = "run"
      ]_vars

\* C26: in the earlier revisions (part_001 mpAlloc, part_002 mpAllocEx) every
\* handle that mpAlloc returns other than MP_INVALID_HANDLE is strictly less
\* than the capacity at the moment it is returned; and when the free list was
\* empty and the bump index had reached the capacity, a successful mpAlloc has
\* raised the capacity by at least one slot.
C26_EarlierRevisionsHandleBelowCapacity ==
    [][(/\ unit \in RevUnits /\ op' = "mpAlloc" /\ pc = "run" /\ pc' # "crashed"
        /\ ret' # RevInvalidHandle)
       => /\ ret' < pool'.capacity
          /\ (pool.hFreeList = RevInvalidHandle /\ pool.hFreeArray >= pool.capacity)
                => pool'.capacity >= pool.capacity + 1
      ]_vars

\* C28: with a counter type Size of width SizeBits, no call erases an entry
\* that a live object still refers to, however many live objects refer to the
\* same value: after every call, every live object refers to an entry of the
\* store that holds its value, and that entry was not erased by a step of the
\* call.
C28_NoEraseWhileReferenced ==
    [][(unit = "intern" /\ pc = "run" /\ pc' # "crashed")
       => \A o \in LiveObjects' :
             /\ Refers(map', o.ptr, o.val)
             /\ ~ErasedDuring(o.ptr)
      ]_vars

\* b to the power e
RECURSIVE Power(_, _)
Power(b, e) == IF e = 0 THEN 1 ELSE b * Power(b, e - 1)
\* the capacity of a fresh pool after k resizes made by mpAlloc
RECURSIVE CapacityAfter(_)
CapacityAfter(k) ==
    IF k = 0 THEN 0 ELSE AllocCapacity([capacity |-> CapacityAfter(k - 1)])
\* the number of resizes mpAlloc needs to issue N handles from a fresh pool:
\* the first k for which the capacity after k resizes is at least N
ResizesNeeded(N) ==
    CHOOSE k \in 0 .. N :
        /\ CapacityAfter(k) >= N
        /\ \A j \in 0 .. k - 1 : CapacityAfter(j) < N

====
